---- MODULE Spec2Model ----
(***************************************************************************)
(* A model of geventconnpool (src/src/geventconnpool/pool.py):             *)
(*   - ConnectionPool: a deque of ready connections guarded by a           *)
(*     BoundedSemaphore, populated and repaired by _add_one greenlets,     *)
(*     lent through the context manager get(), probed by the optional      *)
(*     _keepalive_periodic greenlet;                                       *)
(*   - retry: the decorator that re-executes a function on a classified    *)
(*     exception.                                                          *)
(* Greenlets are cooperative: a step of the model is the code a greenlet   *)
(* runs between two points where it can yield to the hub (a blocking       *)
(* lock.acquire(), gevent.sleep(), the body of the with block, the call    *)
(* of the wrapped function).                                               *)
(* Time is counted in tenths of a second, so that SPAWN_FREQUENCY = 0.1 is *)
(* the integer 1 and the threshold 400 of _add_one is 4000.                *)
(***************************************************************************)
EXTENDS Integers, Sequences, FiniteSets

\* ------------------------------------------------------------ bounds
MaxSize == 2
NumConsumers == 2
MaxReplacements == 1
MaxNulls == 2
MaxBackoffNulls == 14
MaxMaxFailures == 2
MaxCalls == 5
MaxTime == 2

\* ------------------------------------------------- program constants
\* pool.py:24, SPAWN_FREQUENCY = 0.1, in tenths of a second
SPAWN_FREQUENCY == 1
\* pool.py:79, the threshold 400 of "if interval < 400", in tenths of a second
BackoffLimit == 4000
\* Python's None, as the value of keepalive
None == 0
\* retry's max_failures=None
NoMax == -1
\* The keepalive periods a caller may pass, in tenths of a second: 12 s, a
\* multiple of every size of the model, so that float(keepalive) / size is a
\* whole number of tenths
KeepalivePeriods == {120}
\* The hub's clock when a specification does not follow it: every timer may
\* expire at any time
NoClock == -1

\* The borrowers of connections: the consumers and the keepalive greenlet
KA == 0
Consumers == 1..NumConsumers
Borrowers == Consumers \cup {KA}

\* The exceptions a borrower's block, or a function wrapped by retry, raises
BodyErrors == {"socket.timeout", "KeyError"}
\* socket.timeout is a subclass of socket.error
Bases(e) == IF e = "socket.timeout" THEN {"socket.timeout", "socket.error"} ELSE {e}
\* pool.py:12
DEFAULT_EXC_CLASSES == {"socket.error"}
\* The exc_classes a caller passes to the pool, and to retry
ExcClassChoices == {DEFAULT_EXC_CLASSES}
RetryExcClassChoices == {DEFAULT_EXC_CLASSES, {"KeyError"}}
\* The interval a caller passes to retry (0 is the default), in tenths of a second
RetryIntervals == {0, 5}

VARIABLES
  size,          \* self.size
  keepalive,     \* self.keepalive (None is 0)
  exc_classes,   \* self.exc_classes
  connections,   \* self.connections, the deque of ready connections
  lock,          \* the counter of self.lock
  overReleased,  \* whether a lock.release() has raised ValueError
  tasks,         \* the _add_one greenlets spawned and not yet finished
  spawned,       \* how many _add_one greenlets were ever spawned
  pc,            \* where each borrower (consumer or keepalive greenlet) is
  held,          \* the connection each borrower holds inside its with block
  raised,        \* what the with block of each borrower last raised
  err,           \* what the last get() of each borrower raised to its caller
  discarded,     \* the connections dropped after a classified failure
  nullsAllowed,  \* how many times in a row _new_connection may return None
  delay,         \* the local delay of _keepalive_periodic (None before it runs)
  now,           \* the hub's clock, in tenths of a second since __init__
  firstCall,     \* when each _add_one made its first call of _new_connection
  died,          \* the _add_one greenlets that an exception of _new_connection ended
  inner,         \* the connection each borrower holds inside a with block nested
                 \* in its with block
  nests,         \* whether the with blocks of the consumers call get() again
  \* retry(func, exc_classes, logger, max_failures, ...) and one caller of deco
  r_exc,         \* exc_classes
  r_logger,      \* whether logger is not None
  r_max,         \* max_failures (None is NoMax)
  r_interval,    \* interval
  r_pc,          \* where the caller is: outside deco, in func, in gevent.sleep
  failures,      \* the local failures of deco
  calls,         \* how many times this call of deco has called func
  r_log,         \* the messages this call of deco has logged, each with the
                 \* value failures had when it was logged
  r_slept,       \* the arguments of the calls of gevent.sleep of this call of deco
  r_raised,      \* what the last call of func raised
  r_out          \* how the last call of deco ended

poolVars == <<size, keepalive, exc_classes, connections, lock, overReleased,
              tasks, spawned, pc, held, raised, err, discarded, nullsAllowed,
              delay, now, firstCall, died, inner, nests>>
auxVars == <<delay, now, firstCall, died, inner, nests>>
retryVars == <<r_exc, r_logger, r_max, r_interval, r_pc, failures, calls, r_log,
               r_slept, r_raised, r_out>>
vars == <<poolVars, retryVars, auxVars>>

Range(s) == {s[i] : i \in 1..Len(s)}

\* ------------------------------------------------------------ helpers
\* "except classes": the exception is an instance of one of the classes
IsClassified(e, classes) == Bases(e) \cap classes # {}

\* Mutant: __init__ without the loop of lock.acquire()
LockAfterInitFull(n) == n

\* __init__: BoundedSemaphore(size), then size acquisitions
LockAfterInit(n) == n - n

\* Mutant: gevent.spawn_later(self.SPAWN_FREQUENCY, self._add_one) for every i
SpawnDelayFlat(i) == SPAWN_FREQUENCY

\* __init__: the delay of the i-th initial _add_one
SpawnDelay(i) == SPAWN_FREQUENCY * i

\* Mutant: lock.acquire(blocking=False), whose result is ignored
CanAcquireNonBlocking(l) == TRUE

\* lock.acquire() returns only when the counter is positive
CanAcquire(l) == l > 0

\* BoundedSemaphore.release(): ValueError when the counter is at its bound
ReleaseOverflows(l) == l >= size
Released(l) == IF ReleaseOverflows(l) THEN l ELSE l + 1

\* _add_one: "if interval < 400: interval *= 2"
NextInterval(interval) == IF interval < BackoffLimit THEN interval * 2 ELSE interval

\* The connection an _add_one greenlet obtains from _new_connection
ConnOf(t) == t.tid + 1

\* When a timer of d tenths that is started now expires
After(d) == IF now = NoClock THEN NoClock ELSE now + d

\* A timer expires no earlier than it is due, and the hub may run it later
Expired(due) == now = NoClock \/ now >= due

\* gevent.spawn_later(seconds, self._add_one): a greenlet that has not run yet
NewTask(tid, seconds) ==
  [tid |-> tid, delay |-> seconds, due |-> After(seconds), pc |-> "scheduled",
   interval |-> 0, k |-> 0]

\* delay = float(self.keepalive) / self.size
KeepaliveDelay(k, n) == k \div n

\* Mutant: _keepalive_periodic without its try/except
AfterGetNoCatch(b, e) ==
  IF b # KA THEN "idle"
  ELSE IF e = "none" THEN "sleeping" ELSE "dead"

\* Mutant: _keepalive_periodic with "except Exception: pass"
AfterGetCatchAll(b, e) ==
  IF b # KA THEN "idle" ELSE "sleeping"

\* Where a borrower goes when its get() raises e to it (e = "none": the with
\* statement ends normally): a consumer is out of get(); _keepalive_periodic
\* swallows an exception of exc_classes, sleeps and loops, and dies of any other.
AfterGet(b, e) ==
  IF b # KA THEN "idle"
  ELSE IF e = "none" \/ IsClassified(e, exc_classes) THEN "sleeping" ELSE "dead"

\* ------------------------------------------------------------ Init
\* ConnectionPool.__init__ has returned (the clock is set before it)
Constructed ==
  /\ size \in 1..MaxSize
  /\ keepalive \in {None} \cup KeepalivePeriods
  /\ exc_classes \in ExcClassChoices
  /\ connections = <<>>
  /\ lock = LockAfterInit(size)
  /\ overReleased = FALSE
  /\ tasks = {NewTask(i, SpawnDelay(i)) : i \in 0..(size - 1)}
  /\ spawned = size
  /\ pc = [b \in Borrowers |->
             IF b = KA THEN (IF keepalive # None THEN "spawned" ELSE "off")
             ELSE "idle"]
  /\ held = [b \in Borrowers |-> None]
  /\ raised = [b \in Borrowers |-> "none"]
  /\ err = [b \in Borrowers |-> "none"]
  /\ discarded = {}
  /\ delay = None
  /\ firstCall = {}
  /\ died = {}
  /\ inner = [b \in Borrowers |-> None]

\* retry(func, ...) has returned deco, which nobody has called yet
Decorated ==
  /\ r_exc \in RetryExcClassChoices
  /\ r_logger \in BOOLEAN
  /\ r_max \in {NoMax} \cup (0..MaxMaxFailures)
  /\ r_interval \in RetryIntervals
  /\ r_pc = "idle"
  /\ failures = 0
  /\ calls = 0
  /\ r_log = <<>>
  /\ r_slept = <<>>
  /\ r_raised = "none"
  /\ r_out = "none"

\* The pool alone
Init ==
  /\ now = NoClock /\ nests = FALSE
  /\ Constructed
  /\ nullsAllowed = MaxNulls
  /\ Decorated /\ r_exc = DEFAULT_EXC_CLASSES /\ ~r_logger /\ r_max = NoMax
  /\ r_interval = 0

\* A pool of one connection whose factory may fail many times in a row
InitBackoff ==
  /\ now = NoClock /\ nests = FALSE
  /\ Constructed /\ size = 1
  /\ nullsAllowed = MaxBackoffNulls
  /\ Decorated /\ r_exc = DEFAULT_EXC_CLASSES /\ ~r_logger /\ r_max = NoMax
  /\ r_interval = 0

\* The decorator alone
InitRetry ==
  /\ now = NoClock /\ nests = FALSE
  /\ Constructed /\ size = 1 /\ keepalive = None /\ exc_classes = DEFAULT_EXC_CLASSES
  /\ nullsAllowed = MaxNulls
  /\ Decorated

\* The pool on the hub's clock, which starts when __init__ returns
InitTimed ==
  /\ now = 0 /\ nests = FALSE
  /\ Constructed
  /\ nullsAllowed = MaxNulls
  /\ Decorated /\ r_exc = DEFAULT_EXC_CLASSES /\ ~r_logger /\ r_max = NoMax
  /\ r_interval = 0

\* ------------------------------------------------------------ _add_one
\* conn is usable: self.connections.append(conn); self.lock.release()
AddOneDone(t) ==
  /\ connections' = Append(connections, ConnOf(t))
  /\ lock' = Released(lock)
  /\ overReleased' = (overReleased \/ ReleaseOverflows(lock))
  /\ tasks' = tasks \ {t}
  /\ UNCHANGED <<size, keepalive, exc_classes, spawned, pc, held, raised, err,
                 discarded, nullsAllowed, retryVars, delay, now, died,
                 inner, nests>>

\* conn is falsy: gevent.sleep(interval)
AddOneSleep(t, interval) ==
  /\ t.k < nullsAllowed
  /\ tasks' = (tasks \ {t}) \cup
                {[t EXCEPT !.pc = "sleeping", !.interval = interval,
                           !.due = After(interval), !.k = t.k + 1]}
  /\ UNCHANGED <<size, keepalive, exc_classes, connections, lock, overReleased,
                 spawned, pc, held, raised, err, discarded, nullsAllowed, retryVars,
                 delay, now, died, inner, nests>>

\* The greenlet starts: interval = SPAWN_FREQUENCY, the first _new_connection()
AddOneFirstOk(t) ==
  /\ t \in tasks /\ t.pc = "scheduled"
  /\ Expired(t.due)
  /\ firstCall' = firstCall \cup {[tid |-> t.tid, at |-> now]}
  /\ AddOneDone(t)

AddOneFirstNull(t) ==
  /\ t \in tasks /\ t.pc = "scheduled"
  /\ Expired(t.due)
  /\ firstCall' = firstCall \cup {[tid |-> t.tid, at |-> now]}
  /\ AddOneSleep(t, SPAWN_FREQUENCY)

\* The sleep ends: the interval is doubled below the threshold, and
\* _new_connection() is called again
AddOneRetryOk(t) ==
  /\ t \in tasks /\ t.pc = "sleeping"
  /\ Expired(t.due)
  /\ firstCall' = firstCall
  /\ AddOneDone(t)

AddOneRetryNull(t) ==
  /\ t \in tasks /\ t.pc = "sleeping"
  /\ Expired(t.due)
  /\ firstCall' = firstCall
  /\ AddOneSleep(t, NextInterval(t.interval))

\* Mutant: the release is in a finally clause
AddOneRaisesReleasing(t) ==
  /\ tasks' = tasks \ {t}
  /\ died' = died \cup {t.tid}
  /\ lock' = Released(lock)
  /\ overReleased' = (overReleased \/ ReleaseOverflows(lock))
  /\ UNCHANGED <<size, keepalive, exc_classes, connections,
                 spawned, pc, held, raised, err, discarded, nullsAllowed, retryVars,
                 delay, now, inner, nests>>

\* _new_connection() raises: the exception ends the greenlet, before the
\* append and the release
AddOneRaises(t) ==
  /\ tasks' = tasks \ {t}
  /\ died' = died \cup {t.tid}
  /\ UNCHANGED <<size, keepalive, exc_classes, connections, lock, overReleased,
                 spawned, pc, held, raised, err, discarded, nullsAllowed, retryVars,
                 delay, now, inner, nests>>

AddOneFirstRaises(t) ==
  /\ t \in tasks /\ t.pc = "scheduled"
  /\ Expired(t.due)
  /\ firstCall' = firstCall \cup {[tid |-> t.tid, at |-> now]}
  /\ AddOneRaises(t)

AddOneRetryRaises(t) ==
  /\ t \in tasks /\ t.pc = "sleeping"
  /\ Expired(t.due)
  /\ firstCall' = firstCall
  /\ AddOneRaises(t)

\* ------------------------------------------------------------ the hub's clock
\* A tenth of a second goes by; the timers that are due need not have run
Tick ==
  /\ now # NoClock /\ now < MaxTime
  /\ now' = now + 1
  /\ UNCHANGED <<size, keepalive, exc_classes, connections, lock, overReleased,
                 tasks, spawned, pc, held, raised, err, discarded, nullsAllowed,
                 retryVars, delay, firstCall, died, inner, nests>>

\* ------------------------------------------------------------ get
\* A consumer calls get(): it is now in (or about to enter) lock.acquire()
Call(c) ==
  /\ c \in Consumers /\ pc[c] = "idle"
  /\ pc' = [pc EXCEPT ![c] = "waiting"]
  /\ raised' = [raised EXCEPT ![c] = "none"]
  /\ err' = [err EXCEPT ![c] = "none"]
  /\ UNCHANGED <<size, keepalive, exc_classes, connections, lock, overReleased,
                 tasks, spawned, held, discarded, nullsAllowed, retryVars, auxVars>>

\* Mutant: conn = self.connections[0], the connection stays in the deque
EnterPeek(b) ==
  /\ pc[b] = "waiting"
  /\ CanAcquire(lock)
  /\ connections # <<>>
  /\ lock' = lock - 1
  /\ held' = [held EXCEPT ![b] = Head(connections)]
  /\ pc' = [pc EXCEPT ![b] = "holding"]
  /\ UNCHANGED <<connections, raised, err, size, keepalive, exc_classes, overReleased,
                 tasks, spawned, discarded, nullsAllowed, retryVars, auxVars>>

\* lock.acquire() returns and conn = self.connections.popleft(), with no yield
\* in between; popleft() of an empty deque raises IndexError out of get()
\* (for a get() called inside a with block, "reentering", the connection is
\* the one of the nested block, and the IndexError is raised in the outer block)
Enter(b) ==
  /\ pc[b] \in {"waiting", "reentering"}
  /\ CanAcquire(lock)
  /\ lock' = lock - 1
  /\ IF connections # <<>>
       THEN /\ connections' = Tail(connections)
            /\ err' = err
            /\ IF pc[b] = "waiting"
                 THEN /\ held' = [held EXCEPT ![b] = Head(connections)]
                      /\ pc' = [pc EXCEPT ![b] = "holding"]
                      /\ inner' = inner
                 ELSE /\ inner' = [inner EXCEPT ![b] = Head(connections)]
                      /\ pc' = [pc EXCEPT ![b] = "holding2"]
                      /\ held' = held
       ELSE /\ pc' = [pc EXCEPT ![b] = IF pc[b] = "waiting"
                                         THEN AfterGet(b, "IndexError") ELSE "holding"]
            /\ err' = [err EXCEPT ![b] = "IndexError"]
            /\ UNCHANGED <<held, inner, connections>>
  /\ UNCHANGED <<raised, size, keepalive, exc_classes, overReleased, tasks, spawned,
                 discarded, nullsAllowed, retryVars, delay, now, firstCall, died, nests>>

\* The with block of a consumer calls get() again: the consumer is in
\* lock.acquire() with the connection of its with block in its hands
Reenter(c) ==
  /\ nests
  /\ c \in Consumers /\ pc[c] = "holding"
  /\ pc' = [pc EXCEPT ![c] = "reentering"]
  /\ UNCHANGED <<size, keepalive, exc_classes, connections, lock, overReleased,
                 tasks, spawned, held, raised, err, discarded, nullsAllowed,
                 retryVars, auxVars>>

\* The nested with block ends without an exception: the else clause of the
\* nested get(), back in the outer with block
PutBackInner(b) ==
  /\ connections' = Append(connections, inner[b])
  /\ lock' = Released(lock)
  /\ overReleased' = (overReleased \/ ReleaseOverflows(lock))
  /\ inner' = [inner EXCEPT ![b] = None]
  /\ pc' = [pc EXCEPT ![b] = "holding"]
  /\ UNCHANGED <<size, keepalive, exc_classes, tasks, spawned, held, raised, err,
                 discarded, nullsAllowed, retryVars, delay, now, firstCall, died, nests>>

\* Mutant: self.connections.appendleft(conn)
PutBackLeft(b, e) ==
  /\ connections' = <<held[b]>> \o connections
  /\ lock' = Released(lock)
  /\ overReleased' = (overReleased \/ ReleaseOverflows(lock))
  /\ held' = [held EXCEPT ![b] = None]
  /\ pc' = [pc EXCEPT ![b] = AfterGet(b, e)]
  /\ raised' = [raised EXCEPT ![b] = e]
  /\ err' = [err EXCEPT ![b] = e]
  /\ UNCHANGED <<size, keepalive, exc_classes, tasks, spawned, discarded, nullsAllowed, retryVars, auxVars>>

\* self.connections.append(conn); self.lock.release(), and then e (or the
\* ValueError of the release) goes to the caller
PutBack(b, e) ==
  LET out == IF ReleaseOverflows(lock) THEN "ValueError" ELSE e IN
  /\ connections' = Append(connections, held[b])
  /\ lock' = Released(lock)
  /\ overReleased' = (overReleased \/ ReleaseOverflows(lock))
  /\ held' = [held EXCEPT ![b] = None]
  /\ pc' = [pc EXCEPT ![b] = AfterGet(b, out)]
  /\ raised' = [raised EXCEPT ![b] = e]
  /\ err' = [err EXCEPT ![b] = out]
  /\ UNCHANGED <<size, keepalive, exc_classes, tasks, spawned, discarded, nullsAllowed, retryVars, auxVars>>

\* Mutant: the put back is in a finally clause, so the failed connection is
\* put back as well as replaced
DropAndPutBack(b, e) ==
  /\ tasks' = tasks \cup {NewTask(spawned, SPAWN_FREQUENCY)}
  /\ spawned' = spawned + 1
  /\ connections' = Append(connections, held[b])
  /\ lock' = Released(lock)
  /\ overReleased' = (overReleased \/ ReleaseOverflows(lock))
  /\ held' = [held EXCEPT ![b] = None]
  /\ pc' = [pc EXCEPT ![b] = AfterGet(b, e)]
  /\ raised' = [raised EXCEPT ![b] = e]
  /\ err' = [err EXCEPT ![b] = e]
  /\ UNCHANGED <<size, keepalive, exc_classes, discarded, nullsAllowed, retryVars, auxVars>>

\* Mutant: the permit of the failed connection is released at once
DropReleasing(b, e) ==
  /\ tasks' = tasks \cup {NewTask(spawned, SPAWN_FREQUENCY)}
  /\ spawned' = spawned + 1
  /\ discarded' = discarded \cup {held[b]}
  /\ lock' = Released(lock)
  /\ overReleased' = (overReleased \/ ReleaseOverflows(lock))
  /\ held' = [held EXCEPT ![b] = None]
  /\ pc' = [pc EXCEPT ![b] = AfterGet(b, e)]
  /\ raised' = [raised EXCEPT ![b] = e]
  /\ err' = [err EXCEPT ![b] = e]
  /\ UNCHANGED <<size, keepalive, exc_classes, connections, nullsAllowed, retryVars, auxVars>>

\* Mutant: the failed connection is dropped and no _add_one is spawned
DropNoSpawn(b, e) ==
  /\ discarded' = discarded \cup {held[b]}
  /\ held' = [held EXCEPT ![b] = None]
  /\ pc' = [pc EXCEPT ![b] = AfterGet(b, e)]
  /\ raised' = [raised EXCEPT ![b] = e]
  /\ err' = [err EXCEPT ![b] = e]
  /\ UNCHANGED <<size, keepalive, exc_classes, connections, lock, overReleased,
                 tasks, spawned, nullsAllowed, retryVars, auxVars>>

\* gevent.spawn_later(self.SPAWN_FREQUENCY, self._add_one); raise
Drop(b, e) ==
  /\ tasks' = tasks \cup {NewTask(spawned, SPAWN_FREQUENCY)}
  /\ spawned' = spawned + 1
  /\ discarded' = discarded \cup {held[b]}
  /\ held' = [held EXCEPT ![b] = None]
  /\ pc' = [pc EXCEPT ![b] = AfterGet(b, e)]
  /\ raised' = [raised EXCEPT ![b] = e]
  /\ err' = [err EXCEPT ![b] = e]
  /\ UNCHANGED <<size, keepalive, exc_classes, connections, lock, overReleased,
                 nullsAllowed, retryVars, auxVars>>

\* Mutant: the else clause releases the permit and forgets the append
ExitOkNoAppend(b) ==
  /\ pc[b] = "holding"
  /\ lock' = Released(lock)
  /\ overReleased' = (overReleased \/ ReleaseOverflows(lock))
  /\ held' = [held EXCEPT ![b] = None]
  /\ pc' = [pc EXCEPT ![b] = AfterGet(b, "none")]
  /\ raised' = [raised EXCEPT ![b] = "none"]
  /\ err' = [err EXCEPT ![b] = "none"]
  /\ UNCHANGED <<size, keepalive, exc_classes, connections, tasks, spawned,
                 discarded, nullsAllowed, retryVars, auxVars>>

\* Mutant: the else clause appends the connection and forgets the release
ExitOkNoRelease(b) ==
  /\ pc[b] = "holding"
  /\ connections' = Append(connections, held[b])
  /\ held' = [held EXCEPT ![b] = None]
  /\ pc' = [pc EXCEPT ![b] = AfterGet(b, "none")]
  /\ raised' = [raised EXCEPT ![b] = "none"]
  /\ err' = [err EXCEPT ![b] = "none"]
  /\ UNCHANGED <<size, keepalive, exc_classes, lock, overReleased, tasks, spawned,
                 discarded, nullsAllowed, retryVars, auxVars>>

\* The with block ends without an exception: the else clause (of the nested
\* get(), when the block is a nested one)
ExitOk(b) ==
  /\ pc[b] \in {"holding", "holding2"}
  /\ IF pc[b] = "holding" THEN PutBack(b, "none") ELSE PutBackInner(b)

\* The with block raises an exception of exc_classes: the first except clause
ExitClassified(b, e) ==
  /\ pc[b] = "holding"
  /\ IsClassified(e, exc_classes)
  /\ spawned - size < MaxReplacements
  /\ Drop(b, e)

\* Mutant: there is no bare except clause, the connection and its permit are lost
ExitUnclassifiedLeak(b, e) ==
  /\ pc[b] = "holding"
  /\ ~IsClassified(e, exc_classes)
  /\ held' = [held EXCEPT ![b] = None]
  /\ pc' = [pc EXCEPT ![b] = AfterGet(b, e)]
  /\ raised' = [raised EXCEPT ![b] = e]
  /\ err' = [err EXCEPT ![b] = e]
  /\ UNCHANGED <<size, keepalive, exc_classes, connections, lock, overReleased,
                 tasks, spawned, discarded, nullsAllowed, retryVars, auxVars>>

\* The with block raises anything else: the bare except clause
ExitUnclassified(b, e) ==
  /\ pc[b] = "holding"
  /\ ~IsClassified(e, exc_classes)
  /\ PutBack(b, e)

\* ------------------------------------------------- _keepalive_periodic
\* Mutant: the loop starts with gevent.sleep(delay) and calls get() after it
KeepaliveStartSleeping ==
  /\ pc[KA] = "spawned"
  /\ delay' = KeepaliveDelay(keepalive, size)
  /\ pc' = [pc EXCEPT ![KA] = "sleeping"]
  /\ UNCHANGED <<size, keepalive, exc_classes, connections, lock, overReleased,
                 tasks, spawned, held, raised, err, discarded, nullsAllowed,
                 retryVars, now, firstCall, died, inner, nests>>

\* The greenlet spawned by __init__ runs: delay is computed, the loop is
\* entered and get() is called
KeepaliveStart ==
  /\ pc[KA] = "spawned"
  /\ delay' = KeepaliveDelay(keepalive, size)
  /\ pc' = [pc EXCEPT ![KA] = "waiting"]
  /\ UNCHANGED <<size, keepalive, exc_classes, connections, lock, overReleased,
                 tasks, spawned, held, raised, err, discarded, nullsAllowed,
                 retryVars, now, firstCall, died, inner, nests>>

\* gevent.sleep(delay) ends and the loop calls get() again
KeepaliveWake ==
  /\ pc[KA] = "sleeping"
  /\ pc' = [pc EXCEPT ![KA] = "waiting"]
  /\ raised' = [raised EXCEPT ![KA] = "none"]
  /\ err' = [err EXCEPT ![KA] = "none"]
  /\ UNCHANGED <<size, keepalive, exc_classes, connections, lock, overReleased,
                 tasks, spawned, held, discarded, nullsAllowed, retryVars, auxVars>>

\* ------------------------------------------------------------ Next
Next ==
  \/ \E t \in tasks : AddOneFirstOk(t)
  \/ \E t \in tasks : AddOneFirstNull(t)
  \/ \E t \in tasks : AddOneRetryOk(t)
  \/ \E t \in tasks : AddOneRetryNull(t)
  \/ \E c \in Consumers : Call(c)
  \/ \E b \in Borrowers : Enter(b)
  \/ \E b \in Borrowers : ExitOk(b)
  \/ \E b \in Borrowers, e \in BodyErrors : ExitClassified(b, e)
  \/ \E b \in Borrowers, e \in BodyErrors : ExitUnclassified(b, e)
  \/ KeepaliveStart
  \/ KeepaliveWake

Spec == Init /\ [][Next]_vars

SpecBackoff == InitBackoff /\ [][Next]_vars

\* A pool without keepalive whose factory may raise instead of returning
InitRaising == Init /\ keepalive = None

NextRaising ==
  \/ \E t \in tasks : AddOneFirstOk(t)
  \/ \E t \in tasks : AddOneFirstNull(t)
  \/ \E t \in tasks : AddOneFirstRaises(t)
  \/ \E t \in tasks : AddOneRetryOk(t)
  \/ \E t \in tasks : AddOneRetryNull(t)
  \/ \E t \in tasks : AddOneRetryRaises(t)
  \/ \E c \in Consumers : Call(c)
  \/ \E c \in Consumers : Enter(c)
  \/ \E c \in Consumers : ExitOk(c)
  \/ \E c \in Consumers, e \in BodyErrors : ExitClassified(c, e)
  \/ \E c \in Consumers, e \in BodyErrors : ExitUnclassified(c, e)

SpecRaising == InitRaising /\ [][NextRaising]_vars

\* The pool with time going by, and borrowers whose with blocks raise nothing
NextTimed ==
  \/ \E t \in tasks : AddOneFirstOk(t)
  \/ \E t \in tasks : AddOneFirstNull(t)
  \/ \E t \in tasks : AddOneRetryOk(t)
  \/ \E t \in tasks : AddOneRetryNull(t)
  \/ \E c \in Consumers : Call(c)
  \/ \E b \in Borrowers : Enter(b)
  \/ \E b \in Borrowers : ExitOk(b)
  \/ KeepaliveStart
  \/ KeepaliveWake
  \/ Tick

SpecTimed == InitTimed /\ [][NextTimed]_vars

\* The hub runs every _add_one whose timer has expired, and the factory does not
\* return None to the same greenlet for ever
TaskIds == 0..(MaxSize + MaxReplacements - 1)
AddOneOk(tid) ==
  \E t \in tasks : t.tid = tid /\ (AddOneFirstOk(t) \/ AddOneRetryOk(t))
Fairness == \A tid \in TaskIds : WF_vars(AddOneOk(tid))

\* A pool of one connection, for the properties of progress
InitFair == Init /\ size = 1

SpecFair == InitFair /\ [][Next]_vars /\ Fairness

\* A pool of two connections with a keepalive loop, whose consumers all nest
\* their get() calls, or all do not; an _add_one gets nothing from
\* _new_connection() twice at most
InitProgress ==
  /\ now = NoClock /\ nests \in BOOLEAN
  /\ Constructed /\ size = 2 /\ keepalive # None
  /\ nullsAllowed = 2
  /\ Decorated /\ r_exc = DEFAULT_EXC_CLASSES /\ ~r_logger /\ r_max = NoMax
  /\ r_interval = 0

NextProgress ==
  \/ \E t \in tasks : AddOneFirstOk(t)
  \/ \E t \in tasks : AddOneFirstNull(t)
  \/ \E t \in tasks : AddOneRetryOk(t)
  \/ \E t \in tasks : AddOneRetryNull(t)
  \/ \E c \in Consumers : Call(c)
  \/ \E b \in Borrowers : Enter(b)
  \/ \E b \in Borrowers : ExitOk(b)
  \/ \E b \in Borrowers, e \in BodyErrors : ExitClassified(b, e)
  \/ KeepaliveStart
  \/ KeepaliveWake
  \/ \E c \in Consumers : Reenter(c)

\* Every with block ends (unless it is in a nested get()), and a get() that
\* could return for good does return: the hub wakes a greenlet of lock.acquire()
\* when a permit is free, but another greenlet may have taken the permit by then
FairnessProgress ==
  /\ Fairness
  /\ \A b \in Borrowers : WF_vars(ExitOk(b))
  /\ \A b \in Borrowers : WF_vars(Enter(b))

SpecProgress == InitProgress /\ [][NextProgress]_vars /\ FairnessProgress

\* ------------------------------------------------------------ retry
\* Mutant: "failures > max_failures + 1"
ExceededLate(f, m) == m # NoMax /\ f > m + 1

\* Mutant: "failures >= max_failures"
ExceededAtMax(f, m) == m # NoMax /\ f >= m

\* "if max_failures is not None and failures > max_failures"
Exceeded(f, m) == m # NoMax /\ f > m

\* logger.log(level, message), if there is a logger, while failures is f
Logged(log, message, f) ==
  IF r_logger THEN Append(log, [message |-> message, failures |-> f]) ELSE log

\* Mutant: failures = 0 is in retry, outside deco
InvokeKeepingCount ==
  /\ r_pc = "idle"
  /\ r_pc' = "calling"
  /\ calls' = 1
  /\ r_log' = <<>>
  /\ r_slept' = <<>>
  /\ r_raised' = "none"
  /\ r_out' = "none"
  /\ UNCHANGED <<r_exc, r_logger, r_max, r_interval, failures, poolVars>>

\* deco(*args, **kwargs) is called: failures = 0, and func is called
Invoke ==
  /\ r_pc = "idle"
  /\ r_pc' = "calling"
  /\ failures' = 0
  /\ calls' = 1
  /\ r_log' = <<>>
  /\ r_slept' = <<>>
  /\ r_raised' = "none"
  /\ r_out' = "none"
  /\ UNCHANGED <<r_exc, r_logger, r_max, r_interval, poolVars>>

\* func returns: deco returns its value
FuncReturns ==
  /\ r_pc = "calling"
  /\ r_pc' = "idle"
  /\ r_raised' = "none"
  /\ r_out' = "returned"
  /\ UNCHANGED <<r_exc, r_logger, r_max, r_interval, failures, calls, r_log, r_slept, poolVars>>

\* func raises an exception of exc_classes: the except clause
FuncRaisesClassified(e) ==
  LET f == failures + 1 IN
  /\ r_pc = "calling"
  /\ IsClassified(e, r_exc)
  /\ Exceeded(f, r_max) \/ calls < MaxCalls
  /\ failures' = f
  /\ r_raised' = e
  /\ IF Exceeded(f, r_max)
       THEN /\ r_log' = Logged(Logged(r_log, "retry", failures), "max_failure", f)
            /\ r_pc' = "idle"
            /\ r_out' = e
            /\ r_slept' = r_slept
       ELSE /\ r_log' = Logged(r_log, "retry", failures)
            /\ r_pc' = "sleeping"
            /\ r_out' = r_out
            /\ r_slept' = Append(r_slept, r_interval)
  /\ UNCHANGED <<r_exc, r_logger, r_max, r_interval, calls, poolVars>>

\* Mutant: "except Exception", every exception is logged and retried
FuncRaisesUnclassifiedRetried(e) ==
  /\ r_pc = "calling"
  /\ ~IsClassified(e, r_exc)
  /\ calls < MaxCalls
  /\ failures' = failures + 1
  /\ r_raised' = e
  /\ r_log' = Logged(r_log, "retry", failures)
  /\ r_pc' = "sleeping"
  /\ r_slept' = Append(r_slept, r_interval)
  /\ UNCHANGED <<r_exc, r_logger, r_max, r_interval, calls, r_out, poolVars>>

\* func raises anything else: it goes through deco to the caller
FuncRaisesUnclassified(e) ==
  /\ r_pc = "calling"
  /\ ~IsClassified(e, r_exc)
  /\ r_pc' = "idle"
  /\ r_raised' = e
  /\ r_out' = e
  /\ UNCHANGED <<r_exc, r_logger, r_max, r_interval, failures, calls, r_log, r_slept, poolVars>>

\* gevent.sleep(interval) ends: the loop calls func again
RetryWake ==
  /\ r_pc = "sleeping"
  /\ r_pc' = "calling"
  /\ calls' = calls + 1
  /\ UNCHANGED <<r_exc, r_logger, r_max, r_interval, failures, r_log, r_slept, r_raised,
                 r_out, poolVars>>

NextRetry ==
  \/ Invoke
  \/ FuncReturns
  \/ \E e \in BodyErrors : FuncRaisesClassified(e)
  \/ \E e \in BodyErrors : FuncRaisesUnclassified(e)
  \/ RetryWake

SpecRetry == InitRetry /\ [][NextRetry]_vars

\* ============================================================ claims
Borrowed == {b \in Borrowers : held[b] # None}
HeldConns == {held[b] : b \in Borrowed}
Available == Range(connections)
InitialTasks == {t \in tasks : t.tid < size}
ReplacementTasks == {t \in tasks : t.tid >= size}

\* b leaves its with block in this step
Exits(b) == pc[b] = "holding" /\ pc'[b] # "holding"

C2_Exclusive ==
  /\ \A b1, b2 \in Borrowed : b1 # b2 => held[b1] # held[b2]
  /\ HeldConns \cap Available = {}
  /\ Cardinality(Available) = Len(connections)
  /\ \A b \in Borrowers : pc[b] = "holding" <=> held[b] # None

C2_AcquirePops ==
  lock' < lock =>
    /\ connections # <<>>
    /\ connections' = Tail(connections)
    /\ \E b \in Borrowers :
         /\ held[b] = None /\ held'[b] = Head(connections)
         /\ \A o \in Borrowers \ {b} : held'[o] = held[o]

\* C2: in every state the connections are held exclusively, and every step that
\* takes a permit pops the head of the deque for the borrower that took it.
C2_NoDoubleLending == []C2_Exclusive /\ [][C2_AcquirePops]_vars

\* Two borrowers hold connections at once, while a third connection-less
\* borrower waits
C2_Witness ==
  /\ Cardinality(Borrowed) >= 2
  /\ \E b \in Borrowers : pc[b] = "waiting"

\* The _add_one greenlet t appends its connection and ends in this step
Finishes(t) == t \in tasks /\ \A u \in tasks' : u.tid # t.tid

\* C3. Release after a classified failure: the step in which a with block ends
\* with an exception of exc_classes leaves the deque and the permits as they
\* are, drops the connection, spawns exactly one _add_one (delayed by
\* SPAWN_FREQUENCY) and raises the same exception to the caller of get(); a
\* dropped connection is never in the deque or in a borrower's hands again; the
\* permit comes back only in the step in which a replacement greenlet ends, which
\* appends its new connection and releases one permit.
C3_Step ==
  /\ \A b \in Borrowers :
       Exits(b) /\ IsClassified(raised'[b], exc_classes) =>
         /\ connections' = connections
         /\ lock' = lock
         /\ held[b] \in discarded' /\ held'[b] = None
         /\ tasks \subseteq tasks' /\ Cardinality(tasks' \ tasks) = 1
         /\ \A t \in tasks' \ tasks : t.pc = "scheduled" /\ t.delay = SPAWN_FREQUENCY
         /\ spawned' = spawned + 1
         /\ err'[b] = raised'[b]
  /\ \A t \in ReplacementTasks :
       IF Finishes(t)
         THEN connections' = Append(connections, ConnOf(t)) /\ lock' = lock + 1
         ELSE t \notin tasks' => lock' = lock /\ connections' = connections

C3_Dropped == discarded \cap (Available \cup HeldConns) = {}

\* C3: a dropped connection is never ready or borrowed, and every step obeys
\* the protocol of the classified release.
C3_ClassifiedRelease == []C3_Dropped /\ [][C3_Step]_vars

\* A consumer has seen its classified exception, and the replacement has
\* appended its connection: all the permits are back
C3_Witness ==
  /\ \E c \in Consumers : pc[c] = "idle" /\ IsClassified(err[c], exc_classes)
  /\ discarded # {} /\ tasks = {}
  /\ lock = size

\* C4. Release after an unclassified failure: the step in which a with block ends
\* with an exception that is not of exc_classes appends the same connection to
\* the deque, releases exactly one permit, spawns nothing, drops nothing and
\* raises the same exception to the caller of get().
C4_Step ==
  \A b \in Borrowers :
    Exits(b) /\ raised'[b] # "none" /\ ~IsClassified(raised'[b], exc_classes) =>
      /\ connections' = Append(connections, held[b])
      /\ lock' = lock + 1
      /\ held'[b] = None
      /\ tasks' = tasks /\ spawned' = spawned /\ discarded' = discarded
      /\ err'[b] = raised'[b]

\* C4: every step obeys the protocol of the unclassified release.
C4_UnclassifiedRelease == [][C4_Step]_vars

\* A consumer has seen its unclassified exception and every connection is ready
C4_Witness ==
  /\ \E c \in Consumers :
       pc[c] = "idle" /\ err[c] \in BodyErrors /\ ~IsClassified(err[c], exc_classes)
  /\ Len(connections) = size
  /\ discarded = {}

\* C5. Success path: the step in which a with block ends without an exception
\* appends the very connection that was borrowed, releases exactly one permit,
\* leaves the set of connections of the pool (ready or borrowed) as it was, and
\* spawns and drops nothing.
C5_Step ==
  \A b \in Borrowers :
    Exits(b) /\ raised'[b] = "none" =>
      /\ connections' = Append(connections, held[b])
      /\ lock' = lock + 1
      /\ held'[b] = None
      /\ Available' \cup HeldConns' = Available \cup HeldConns
      /\ tasks' = tasks /\ spawned' = spawned /\ discarded' = discarded
      /\ err'[b] = "none"

\* C5: every step obeys the protocol of the release without an exception.
C5_SuccessKeepsConnection == [][C5_Step]_vars

\* The keepalive greenlet has probed a connection without an exception and
\* sleeps, and all the connections are ready, none ever dropped
C5_Witness ==
  /\ pc[KA] = "sleeping" /\ raised[KA] = "none"
  /\ Len(connections) = size
  /\ discarded = {}

\* ------------------------------------------------------------ retry claims
\* A call of deco has ended by raising an exception of exc_classes
RaisedClassified == r_pc = "idle" /\ IsClassified(r_out, r_exc)

\* C7. Retry cap: with max_failures = m, a call of deco calls func at most m + 1
\* times; the (m+1)-th classified failure ends the call of deco, which raises
\* that very exception, and no earlier classified failure does (so with m = 2
\* the third failure is raised and there is no fourth call).
C7_RetryCap ==
  r_max # NoMax =>
    /\ calls <= r_max + 1
    /\ failures <= r_max + 1
    /\ failures = r_max + 1 => RaisedClassified /\ r_out = r_raised
    /\ RaisedClassified => failures = r_max + 1 /\ calls = r_max + 1
    /\ r_pc = "sleeping" => failures <= r_max

\* max_failures = 2, func has failed three times: deco has raised the third
\* exception after three calls
C7_Witness ==
  /\ r_max = 2 /\ failures = 3 /\ calls = 3
  /\ r_pc = "idle" /\ r_out = r_raised /\ IsClassified(r_out, r_exc)

\* C8. Retry ignores unclassified errors: the step in which func raises an
\* exception that is not of exc_classes ends the call of deco with that
\* exception, whatever the failure count: nothing is logged, nothing is counted,
\* there is no sleep and no further call of func.
C8_Step ==
  r_pc = "calling" /\ r_pc' # "calling"
    /\ r_raised' # "none" /\ ~IsClassified(r_raised', r_exc) =>
      /\ r_pc' = "idle"
      /\ r_out' = r_raised'
      /\ r_log' = r_log
      /\ failures' = failures
      /\ calls' = calls

\* C8: every step in which func raises an unclassified exception ends deco
\* with it and does nothing else.
C8_UnclassifiedNotRetried == [][C8_Step]_vars

\* After two classified failures, with a logger, func has raised an exception
\* that is not of exc_classes, and deco has raised it
C8_Witness ==
  /\ r_logger /\ failures = 2 /\ calls = 3
  /\ r_pc = "idle"
  /\ r_out \in BodyErrors /\ ~IsClassified(r_out, r_exc)
  /\ Len(r_log) = 2

\* This call of deco has called func at least once, and every call of func
\* has raised an exception of exc_classes
AllFailed == calls >= 1 /\ r_pc # "calling" /\ failures = calls

\* C13, as stated. With max_failures = m and a func that raises a classified
\* exception at every call, the m-th failure is the terminal one: deco raises
\* it, and func is called m times.
C13_TerminalAtMax ==
  r_max # NoMax /\ r_max >= 1 /\ AllFailed =>
    /\ calls <= r_max
    /\ failures = r_max => RaisedClassified /\ r_out = r_raised

\* C13, amended. With max_failures = m and a func that raises a classified
\* exception at every call, the first m failures are followed by a sleep and
\* another call, the (m+1)-th failure is the terminal one: deco raises that
\* exception, and func is called m + 1 times.
C13_TerminalAfterMax ==
  r_max # NoMax /\ AllFailed =>
    /\ calls <= r_max + 1
    /\ failures <= r_max => r_pc = "sleeping" /\ r_out = "none"
    /\ failures = r_max + 1 => RaisedClassified /\ r_out = r_raised

\* max_failures = 1, func has raised a classified exception twice in two
\* calls, and deco has raised the second one
C13_Witness ==
  /\ r_max = 1 /\ AllFailed /\ calls = 2
  /\ r_pc = "idle" /\ r_out = r_raised /\ IsClassified(r_out, r_exc)

\* The log of a call of deco that has a logger: one "retry" message per
\* classified failure, logged before failures was incremented, and after the
\* last of them, if deco has raised it, one "max_failure" message
RetryEntries(n) == [i \in 1..n |-> [message |-> "retry", failures |-> i - 1]]
ExpectedLog ==
  IF RaisedClassified
    THEN Append(RetryEntries(failures), [message |-> "max_failure", failures |-> failures])
    ELSE RetryEntries(failures)
ExpectedSleeps ==
  [i \in 1..(IF RaisedClassified THEN failures - 1 ELSE failures) |-> r_interval]

\* C18. Retry callback protocol: a call of deco starts with failures = 0 and
\* nothing logged, whatever the calls before it did; every classified failure,
\* the terminal one too, logs the retry message once, before failures is
\* incremented and tested; the terminal failure alone then logs the
\* max_failure message once, before deco raises; a failure that is not
\* terminal is followed by gevent.sleep(interval); without a logger nothing is
\* logged.
C18_Log ==
  /\ r_log = (IF r_logger THEN ExpectedLog ELSE <<>>)
  /\ r_slept = ExpectedSleeps
  /\ r_pc = "sleeping" => failures >= 1 /\ ~RaisedClassified
  /\ failures <= calls

C18_Step ==
  /\ r_pc = "idle" /\ r_pc' # "idle" =>
       failures' = 0 /\ r_log' = <<>> /\ r_slept' = <<>> /\ r_pc' = "calling"
  /\ r_pc # "idle" => failures' \in {failures, failures + 1}
  /\ failures' = failures + 1 =>
       /\ r_pc = "calling" /\ IsClassified(r_raised', r_exc)
       /\ IF r_max # NoMax /\ failures' > r_max
            THEN r_pc' = "idle" /\ r_out' = r_raised' /\ r_slept' = r_slept
            ELSE r_pc' = "sleeping" /\ r_slept' = Append(r_slept, r_interval)

\* C18: the log and the sleeps of a call of deco are those of its own
\* failures, and every step obeys the protocol.
C18_CallbackProtocol == []C18_Log /\ [][C18_Step]_vars

\* With a logger, max_failures = 1 and a non-zero interval, deco has raised
\* the second failure: retry, sleep, retry, max_failure
C18_Witness ==
  /\ r_logger /\ r_max = 1 /\ r_interval > 0
  /\ r_pc = "idle" /\ IsClassified(r_out, r_exc)
  /\ r_log = << [message |-> "retry", failures |-> 0],
               [message |-> "retry", failures |-> 1],
               [message |-> "max_failure", failures |-> 2] >>
  /\ r_slept = <<r_interval>>

\* ------------------------------------------------------------ pool claims
\* C9. Acquire blocks when the pool is exhausted: never more than size
\* connections are borrowed; a get() comes out of lock.acquire() only in a step
\* that starts with a permit and a ready connection, so not while every
\* connection is borrowed or not yet established; and the permits only rise by
\* one, through a borrower leaving its with block or an _add_one ending. With
\* size = 1 there is at most one borrower at a time.
C9_Bounded ==
  /\ Cardinality(Borrowed) <= size
  /\ lock >= 0

C9_Step ==
  /\ \A b \in Borrowers :
       pc[b] = "waiting" /\ pc'[b] # "waiting" =>
         /\ lock > 0 /\ connections # <<>>
         /\ Cardinality(Borrowed) < size
         /\ held'[b] # None
  /\ lock' > lock =>
       /\ lock' = lock + 1
       /\ (\E b \in Borrowers : Exits(b)) \/ (\E t \in tasks : Finishes(t))

\* C9: at most size connections are borrowed, and every step obeys the blocking
\* discipline of lock.acquire().
C9_AcquireBlocks == []C9_Bounded /\ [][C9_Step]_vars

\* size = 1: a borrower holds the connection while another is in lock.acquire(),
\* and the one that holds it is not the first to have had it
C9_Witness ==
  /\ size = 1 /\ lock = 0
  /\ \E b1, b2 \in Borrowers : pc[b1] = "holding" /\ pc[b2] = "waiting"
  /\ \E c \in Consumers : pc[c] = "idle" /\ err[c] = "KeyError"

\* C6. Capacity is eventually restored after a classified failure: a dropped
\* connection stays dropped (it is never ready or borrowed again); and when the
\* factory ends up returning a connection to every _add_one and the hub runs
\* them (SpecFair), every _add_one greenlet eventually appends its connection,
\* and whenever fewer than size connections are ready or borrowed, eventually
\* size are again.
Live == Len(connections) + Cardinality(Borrowed)
MadeBy(tid) == ConnOf([tid |-> tid])

C6_Gone == discarded \cap (Available \cup HeldConns) = {}
C6_StaysGone == discarded \subseteq discarded'
C6_Replaced ==
  \A tid \in TaskIds :
    (\E t \in tasks : t.tid = tid) ~>
      (MadeBy(tid) \in Available /\ \A t \in tasks : t.tid # tid)
C6_Restored == (Live < size) ~> (Live = size)

\* C6: dropped connections stay dropped, every _add_one ends up appending its
\* connection, and a pool below size comes back to size.
C6_CapacityRestored ==
  /\ []C6_Gone
  /\ [][C6_StaysGone]_vars
  /\ C6_Replaced
  /\ C6_Restored

\* A connection was dropped, the connection made by a replacement greenlet
\* is ready, and size connections are ready or borrowed again
C6_Witness ==
  /\ discarded # {}
  /\ \E tid \in TaskIds : tid >= size /\ MadeBy(tid) \in Available
  /\ tasks = {} /\ Live = size

\* C11. Permit/queue agreement: in every state, from construction on, the
\* counter of the lock equals len(connections), so it never exceeds size and no
\* release() has overflowed the bounded semaphore; every step that appends to
\* the deque releases exactly one permit and every step that pops takes exactly
\* one, and the permits change in no other step.
C11_Agree ==
  /\ lock = Len(connections)
  /\ lock <= size
  /\ ~overReleased

C11_Paired ==
  /\ Len(connections') - Len(connections) = lock' - lock
  /\ Len(connections') - Len(connections) \in {-1, 0, 1}
  /\ overReleased' = overReleased

\* C11: the permits equal the length of the deque in every state, and every
\* step changes both by the same amount, at most one.
C11_PermitsMatchQueue == []C11_Agree /\ [][C11_Paired]_vars

\* Every connection is ready and every permit is free, after a connection was
\* borrowed and returned and another one dropped and replaced
C11_Witness ==
  /\ lock = size /\ Len(connections) = size
  /\ discarded # {}
  /\ \E c \in Consumers : pc[c] = "idle" /\ err[c] = "KeyError"

\* C12. FIFO lending order: every step that changes the deque either pops its
\* head into the hands of a borrower and leaves the rest in order, or appends
\* one connection that was not in it at the tail and leaves the rest in order
\* (a returned connection or the new connection of an _add_one); so the deque
\* is always in the order of appending, and a connection appended later is
\* never lent before one appended earlier that is still there.
C12_Step ==
  connections' # connections =>
    \/ /\ connections # <<>>
       /\ connections' = Tail(connections)
       /\ \E b \in Borrowers : held[b] = None /\ held'[b] = Head(connections)
    \/ /\ Len(connections') = Len(connections) + 1
       /\ connections' = Append(connections, connections'[Len(connections')])
       /\ connections'[Len(connections')] \notin Available
       /\ \/ \E b \in Borrowers : Exits(b) /\ held[b] = connections'[Len(connections')]
          \/ \E t \in tasks : Finishes(t) /\ ConnOf(t) = connections'[Len(connections')]

\* C12: every step that changes the deque pops its head or appends at its tail.
C12_FifoLending == [][C12_Step]_vars

\* The connection of a replacement greenlet is at the head, and behind it is
\* an older connection that was returned after the replacement was appended
C12_Witness ==
  /\ Len(connections) >= 2
  /\ \E tid \in TaskIds : tid >= size /\ connections[1] = MadeBy(tid)
  /\ connections[2] < connections[1]

\* ------------------------------------------------------------ keepalive claims
\* C14, as stated. Keepalive cycle ordering: in every cycle, the first one
\* too, the loop sleeps keepalive / size first and only then calls get(),
\* probes the connection and releases it: the greenlet's first step is the
\* sleep, and get() is only ever called at the end of a sleep.
C14_SleepFirstStep ==
  /\ pc[KA] = "spawned" /\ pc'[KA] # "spawned" =>
       pc'[KA] = "sleeping" /\ delay' * size = keepalive
  /\ pc'[KA] = "waiting" /\ pc[KA] # "waiting" => pc[KA] = "sleeping"
  /\ pc'[KA] = "holding" /\ pc[KA] # "holding" => pc[KA] = "waiting"

C14_SleepThenProbe == [][C14_SleepFirstStep]_vars

\* C14, amended. In every cycle the loop calls get() once, probes the
\* borrowed connection, releases it and only then sleeps delay = keepalive /
\* size: the first get() is called as soon as the greenlet runs, with no
\* sleep before it, every later one at the end of a sleep, and the end of
\* the with block is followed by the sleep (or by the death of the loop).
C14_Delay ==
  /\ pc[KA] \notin {"off", "spawned"} => delay * size = keepalive /\ delay > 0
  /\ KeepaliveDelay(80, 4) = 20

C14_Step ==
  /\ pc[KA] = "spawned" /\ pc'[KA] # "spawned" =>
       pc'[KA] = "waiting" /\ delay' * size = keepalive
  /\ pc'[KA] = "waiting" /\ pc[KA] # "waiting" => pc[KA] \in {"spawned", "sleeping"}
  /\ pc'[KA] = "holding" /\ pc[KA] # "holding" => pc[KA] = "waiting"
  /\ pc[KA] = "holding" /\ pc'[KA] # "holding" => pc'[KA] \in {"sleeping", "dead"}
  /\ pc'[KA] = "sleeping" /\ pc[KA] # "sleeping" => pc[KA] = "holding"
  /\ pc[KA] = "sleeping" /\ pc'[KA] # "sleeping" => pc'[KA] = "waiting"
  /\ delay # None => delay' = delay

\* C14, amended: the delay is keepalive / size, and the loop goes get, probe,
\* release, sleep.
C14_ProbeThenSleep == []C14_Delay /\ [][C14_Step]_vars

\* A pool of two connections with keepalive = 12 s: the loop has probed a
\* connection and is in its sleep of 6 s
C14_Witness ==
  /\ size = 2 /\ keepalive = 120
  /\ pc[KA] = "sleeping" /\ delay = 60
  /\ raised[KA] = "none" /\ Len(connections) = 2

\* C15. Keepalive survives classified probe failures: the step in which
\* _keepalive(conn) raises an exception of exc_classes drops the probed
\* connection, spawns exactly one _add_one and leaves the deque and the
\* permits as they are, like for any borrower, and the loop swallows the
\* exception: it goes to its sleep, and from the sleep to the next get(). The
\* loop is never dead of an exception of exc_classes.
C15_Step ==
  /\ Exits(KA) /\ IsClassified(raised'[KA], exc_classes) =>
       /\ held[KA] \in discarded' /\ held[KA] \notin Available'
       /\ connections' = connections /\ lock' = lock
       /\ tasks \subseteq tasks' /\ Cardinality(tasks' \ tasks) = 1
       /\ \A t \in tasks' \ tasks : t.pc = "scheduled"
       /\ err'[KA] = raised'[KA]
       /\ pc'[KA] = "sleeping"
  /\ pc[KA] = "sleeping" /\ IsClassified(err[KA], exc_classes) =>
       pc'[KA] \in {"sleeping", "waiting"}

C15_Alive == pc[KA] = "dead" => ~IsClassified(err[KA], exc_classes)

\* C15: a classified failure of the probe is handled like any borrower's and
\* never ends the loop.
C15_KeepaliveSurvives == []C15_Alive /\ [][C15_Step]_vars

\* The probe has raised an exception of exc_classes: the loop sleeps, the
\* connection is dropped and the replacement greenlet has not run yet
C15_Witness ==
  /\ pc[KA] = "sleeping" /\ IsClassified(err[KA], exc_classes)
  /\ held[KA] = None
  /\ discarded # {}
  /\ \E t \in ReplacementTasks : t.pc = "scheduled"

\* C16. Keepalive dies on an unclassified probe failure: the step in which
\* _keepalive(conn) raises an exception that is not of exc_classes appends the
\* probed connection to the deque and releases its permit, and the exception
\* ends the loop; a dead loop stays dead and never holds a connection again;
\* the capacity is conserved with the loop dead.
C16_Step ==
  /\ Exits(KA) /\ raised'[KA] # "none" /\ ~IsClassified(raised'[KA], exc_classes) =>
       /\ connections' = Append(connections, held[KA])
       /\ lock' = lock + 1
       /\ tasks' = tasks /\ discarded' = discarded
       /\ err'[KA] = raised'[KA]
       /\ pc'[KA] = "dead"
  /\ pc[KA] = "dead" => pc'[KA] = "dead" /\ held'[KA] = None

C16_Dead ==
  pc[KA] = "dead" =>
    /\ held[KA] = None
    /\ err[KA] # "none" /\ ~IsClassified(err[KA], exc_classes)
    /\ Len(connections) + Cardinality(Borrowed) + Cardinality(tasks) = size
    /\ lock = Len(connections)

\* C16: an unclassified failure of the probe returns the connection and ends
\* the loop for good, and the pool keeps its capacity.
C16_KeepaliveDies == []C16_Dead /\ [][C16_Step]_vars

\* The loop is dead, and the consumers hold all the connections of a pool of
\* at least two
C16_Witness ==
  /\ pc[KA] = "dead"
  /\ size >= 2
  /\ Cardinality({c \in Consumers : pc[c] = "holding"}) = size

\* ------------------------------------------------------------ construction
\* The first calls of _new_connection by the greenlets that __init__ spawned
InitialCalls == {f \in firstCall : f.tid < size}

\* As long as no _add_one has called _new_connection the pool is as __init__
\* left it: all the permits are taken and the deque is empty, so lock.acquire()
\* blocks and nobody holds a connection, and exactly size greenlets are
\* scheduled, the i-th with a delay of SPAWN_FREQUENCY * i
C17_AsConstructed ==
  firstCall = {} =>
    /\ lock = 0 /\ connections = <<>> /\ Borrowed = {}
    /\ spawned = size /\ Cardinality(tasks) = size
    /\ {t.tid : t \in tasks} = 0..(size - 1)
    /\ \A t \in tasks :
         t.pc = "scheduled" /\ t.delay = SPAWN_FREQUENCY * t.tid /\ t.due = t.delay

\* The i-th greenlet does not call _new_connection before i * SPAWN_FREQUENCY
\* has gone by, and calls it for the first time once
C17_NotBefore ==
  /\ \A f \in InitialCalls : f.at >= SPAWN_FREQUENCY * f.tid
  /\ \A f, g \in firstCall : f.tid = g.tid => f = g
  /\ \A t \in InitialTasks : t.pc = "scheduled" => t.due = SPAWN_FREQUENCY * t.tid

\* There is a keepalive greenlet if and only if keepalive is set; it is
\* spawned by __init__ and has not run as long as nothing else has
C17_OneKeepalive ==
  /\ pc[KA] # "off" <=> keepalive # None
  /\ pc[KA] = "spawned" => delay = None

\* No two of the greenlets that __init__ spawned call _new_connection for the
\* first time at the same time
C17_NeverTogether ==
  \A f, g \in InitialCalls : f.tid # g.tid => f.at # g.at

\* C17, as stated. Construction and staggered population: when __init__
\* returns all the permits are taken and the deque is empty, exactly size
\* _add_one greenlets are scheduled, the i-th does not call _new_connection
\* before i * SPAWN_FREQUENCY has gone by, so no two of them call it for the
\* first time at the same time; one keepalive greenlet is spawned if and only
\* if keepalive is set.
C17_Staggered ==
  /\ C17_AsConstructed
  /\ C17_NotBefore
  /\ C17_NeverTogether
  /\ C17_OneKeepalive

\* C17, amended. As stated, but for the consequence: the first calls are due
\* at times that are pairwise distinct, SPAWN_FREQUENCY apart, and none
\* happens before it is due (a greenlet that the hub runs late may make its
\* first call together with a later one).
C17_StaggeredDue ==
  /\ C17_AsConstructed
  /\ C17_NotBefore
  /\ \A t, u \in InitialTasks :
       t.pc = "scheduled" /\ u.pc = "scheduled" /\ t.tid < u.tid =>
         u.due - t.due = SPAWN_FREQUENCY * (u.tid - t.tid)
  /\ C17_OneKeepalive

\* A pool of two connections, two tenths of a second after __init__: the
\* first greenlet has made its first call at once, the second one a tenth
\* later, when it was due
C17_Witness ==
  /\ size = 2 /\ now = 2
  /\ [tid |-> 0, at |-> 0] \in firstCall
  /\ [tid |-> 1, at |-> 1] \in firstCall

\* ------------------------------------------------------------ factory errors
\* Every slot of the pool is lost: size _add_one greenlets have died
AllLost == Cardinality(died) = size

\* C19. An _add_one retries only after a falsy result: the step in which
\* _new_connection() raises ends the greenlet for good, appends nothing,
\* releases no permit and spawns nothing; each greenlet that died takes one
\* connection off what the pool can ever lend, permanently; once size of them
\* have died no permit is ever free again and every lock.acquire() blocks for
\* ever.
C19_Capacity ==
  /\ Len(connections) + Cardinality(Borrowed) + Cardinality(tasks)
       = size - Cardinality(died)
  /\ lock = Len(connections)
  /\ \A t \in tasks : t.tid \notin died
  /\ AllLost => lock = 0 /\ connections = <<>> /\ Borrowed = {} /\ tasks = {}

C19_Step ==
  /\ died \subseteq died'
  /\ died' # died =>
       /\ \E t \in tasks : died' = died \cup {t.tid} /\ tasks' = tasks \ {t}
       /\ connections' = connections /\ lock' = lock
       /\ spawned' = spawned /\ held' = held
  /\ AllLost => AllLost' /\ lock' = 0 /\ held' = held

\* C19: the capacity is size less the greenlets that died, for good.
C19_FactoryErrorLosesSlot == []C19_Capacity /\ [][C19_Step]_vars

\* A pool of two connections has lost both slots, one of them with a
\* replacement greenlet, and a consumer is in lock.acquire()
C19_Witness ==
  /\ size = 2 /\ AllLost
  /\ \E tid \in died : tid >= size
  /\ \E c \in Consumers : pc[c] = "waiting"

\* ------------------------------------------------------------ progress
\* The greenlets inside lock.acquire()
Pending == {b \in Borrowers : pc[b] \in {"waiting", "reentering"}}

\* Every permit is with a consumer that is inside a nested get(), and nothing
\* is left that would release one
Stuck ==
  /\ lock = 0 /\ tasks = {}
  /\ \A b \in Borrowers : held[b] # None => pc[b] = "reentering"

\* C20, as stated. Progress of get(): when every with block ends, no with
\* block calls get() again, _new_connection() never raises and returns a
\* connection in the end, and the greenlets are scheduled fairly, every
\* lock.acquire() of a consumer or of the keepalive loop returns in the end.
C20_EveryAcquireReturns ==
  \A b \in Borrowers : (~nests /\ pc[b] = "waiting") ~> (pc[b] = "holding")

\* C20. Progress of get(): under the same conditions the pool never
\* deadlocks, that is, a greenlet in lock.acquire() has its connection or finds
\* a permit free in the end,
C20_NeverDeadlocks ==
  \A b \in Borrowers :
    (~nests /\ pc[b] = "waiting") ~> (pc[b] = "holding" \/ lock > 0)

\* and its lock.acquire() returns when the other greenlets do not take the
\* permits before it for ever (a greenlet that releases and acquires again
\* without yielding is served before the one that waits);
C20_ReturnsUnlessOvertaken ==
  \A b \in Borrowers :
    SF_vars(Enter(b)) => ((~nests /\ pc[b] = "waiting") ~> (pc[b] = "holding"))

\* there is no timeout: a lock.acquire() returns only in a step that finds a
\* permit, and once every permit is with a consumer inside a nested get() no
\* lock.acquire() ever returns.
C20_NoTimeout ==
  /\ \A b \in Pending : pc'[b] # pc[b] => lock > 0
  /\ Stuck => Stuck' /\ \A b \in Pending : pc'[b] = pc[b]

C20_Progress ==
  /\ C20_NeverDeadlocks
  /\ C20_ReturnsUnlessOvertaken
  /\ [][C20_NoTimeout]_vars

\* No with block nests a get(): a consumer and the keepalive loop hold the two
\* connections, the other consumer is in lock.acquire() and no permit is free
C20_Witness ==
  /\ ~nests /\ lock = 0 /\ tasks = {}
  /\ pc[KA] = "holding"
  /\ \E c, d \in Consumers : pc[c] = "holding" /\ pc[d] = "waiting"

\* ------------------------------------------------------------ backoff
RECURSIVE Pow2(_)
Pow2(n) == IF n = 0 THEN 1 ELSE 2 * Pow2(n - 1)

\* C10, as stated. Backoff sequence and cap: the delay of the k-th sleep of an
\* _add_one is SPAWN_FREQUENCY * 2^(k-1) as long as that is within the cap, and
\* no delay slept exceeds the cap of 400 (BackoffLimit).
C10_BackoffCapped ==
  \A t \in tasks :
    t.pc = "sleeping" =>
      /\ SPAWN_FREQUENCY * Pow2(t.k - 1) <= BackoffLimit =>
           t.interval = SPAWN_FREQUENCY * Pow2(t.k - 1)
      /\ t.interval <= BackoffLimit

====
